---------------------------- MODULE Spec2Model ----------------------------
(***************************************************************************)
(* Model of the data-profiling chatbot: src/utils.py (loader, the three    *)
(* statistical helpers, the query runner) and src/app.py (the Streamlit    *)
(* request handler main()).                                                *)
(*                                                                         *)
(* Python strings are TLA+ strings (TLC evaluates \o, Len and SubSeq on    *)
(* them), so str.upper, str.startswith and the f-strings are computed      *)
(* character by character.  Optional values (None or a string / a table)   *)
(* are records tagged with their Python type.                              *)
(*                                                                         *)
(* Of the st.* calls, those that carry a message, a table or the question  *)
(* form are kept (titles, headers, rules and spinners are not); the emoji  *)
(* that prefix the messages are written "[x] " (errors) and "[!] "         *)
(* (warnings of the dispatch), and the backquotes of the API-key warning   *)
(* are left out.  An exception raised by                                   *)
(* agent_executor.invoke itself is not modelled.  Numbers in tables are    *)
(* small integers, on which pandas' float arithmetic is exact.             *)
(***************************************************************************)
EXTENDS Integers, Sequences, FiniteSets, TLC

VARIABLES
    pc,              \* position: "idle", "agent" (inside agent_executor.invoke),
                     \* "done" (main returned), "helpers" (helper harness)
    uploaded_file,   \* app.py:55
    user_question,   \* app.py:75
    button,          \* app.py:79, whether "Get Answer" was pressed in this run
    environ,         \* os.environ.get("OPENAI_API_KEY") as an optional string,
                     \* set before the server starts
    df,              \* app.py:57/61, the table held by the handler
    error_message,   \* app.py:58/61
    shown,           \* the st.* calls of the current run, in order
    sent,            \* arguments of agent_executor.invoke in this run, or None
    service_calls,   \* number of agent_executor.invoke calls in this run
    response,        \* what agent_executor.invoke returned in this run, or None
    evaluated,       \* the query given to run_pandasql_query and what it returned, or None
    evaluator_calls, \* number of run_pandasql_query calls in this run
    tool_calls,      \* number of helper-tool calls in this run
    last_tool,       \* the latest helper call: name, argument, returned string
    nreq,            \* number of runs of main() started so far
    history          \* completed runs: inputs and what they led to

vars == << pc, uploaded_file, user_question, button, environ, df, error_message,
           shown, sent, service_calls, response, evaluated, evaluator_calls,
           tool_calls, last_tool, nreq, history >>

\* ------------------------------------------------------------------ bounds
MaxRows == 5          \* rows of the tables the helper harness enumerates
MaxToolCalls == 2     \* helper calls the agent makes within one invoke
MaxRequests == 2      \* runs of main() in one behaviour

\* ------------------------------------------------------------ Python values
None == [type |-> "NoneType"]
Str(s) == [type |-> "str", value |-> s]

\* Python truthiness of an Optional[str]: None and "" are falsy.
Truthy(x) == x.type = "str" /\ x.value # ""

\* A cell of a numeric column: a number, or NaN (a missing value).
Num(v) == [na |-> FALSE, v |-> v]
NaN == [na |-> TRUE, v |-> 0]

\* A column: name, dtype and its cells (numeric cells for int64/float64,
\* strings for object).
Series(name, dtype, cells) == [name |-> name, dtype |-> dtype, cells |-> cells]

\* A table: the columns in order; `rows` is the length of the index.
DataFrame(rows, cols) == [type |-> "DataFrame", rows |-> rows, cols |-> cols]

columns(d) == [i \in 1..Len(d.cols) |-> d.cols[i].name]

InColumns(name, d) == \E i \in 1..Len(d.cols) : d.cols[i].name = name

\* df[column_name]
Column(d, name) == d.cols[CHOOSE i \in 1..Len(d.cols) : d.cols[i].name = name]

\* pd.api.types.is_numeric_dtype
is_numeric_dtype(s) == s.dtype \in {"int64", "float64", "bool"}

\* ----------------------------------------------------------- src/utils.py

\* Series.dropna() followed by the values, as quantile() sees them.
Valid(s) ==
    LET kept == SelectSeq(s.cells, LAMBDA c : ~c.na)
    IN  [i \in 1..Len(kept) |-> kept[i].v]

\* Series.quantile(k/4) with the default linear interpolation, as the
\* numerator over 4 (the position (n-1)*k/4 has a fraction in quarters; the
\* values are small integers, for which the float arithmetic is exact).
\* An empty column has quantile NaN.
quantile(s, k) ==
    LET v    == SortSeq(Valid(s), LAMBDA a, b : a < b)
        n    == Len(v)
        pos  == (n - 1) * k
        lo   == pos \div 4
        frac == pos % 4
    IN  IF n = 0 THEN NaN
        ELSE IF frac = 0 THEN Num(4 * v[lo + 1])
        ELSE Num(4 * v[lo + 1] + frac * (v[lo + 2] - v[lo + 1]))

\* utils.py:17-22
get_dataframe_shape(d) ==
    IF d # None
    THEN "The DataFrame has " \o ToString(d.rows) \o " rows and "
             \o ToString(Len(d.cols)) \o " columns."
    ELSE "DataFrame is not loaded."

\* Series.describe().to_string(), reduced to its count line (and the number
\* of distinct values of an object column); the other lines of describe()
\* are not modelled.
describe(s) ==
    IF is_numeric_dtype(s)
    THEN "count    " \o ToString(Len(Valid(s)))
    ELSE "count     " \o ToString(Len(s.cells)) \o "\nunique    "
             \o ToString(Cardinality({s.cells[i] : i \in 1..Len(s.cells)}))

\* Mutant: the column is looked up before the table is tested for None
get_column_statistics_swapped(d, column_name) ==
    IF d = None \/ ~InColumns(column_name, d)
    THEN "Column '" \o column_name \o "' not found in the DataFrame."
    ELSE describe(Column(d, column_name))

\* utils.py:24-32
get_column_statistics(d, column_name) ==
    IF d = None THEN "DataFrame is not loaded."
    ELSE IF ~InColumns(column_name, d)
    THEN "Column '" \o column_name \o "' not found in the DataFrame."
    ELSE describe(Column(d, column_name))

\* Mutant: the comparisons with the bounds are not strict
OutlierRows_inclusive(s) ==
    LET Q1  == quantile(s, 1)
        Q3  == quantile(s, 3)
        IQR == Q3.v - Q1.v
        lower_bound == 2 * Q1.v - 3 * IQR
        upper_bound == 2 * Q3.v + 3 * IQR
    IN  IF Q1.na \/ Q3.na THEN {}
        ELSE { i \in 1..Len(s.cells) :
                 /\ ~s.cells[i].na
                 /\ \/ 8 * s.cells[i].v <= lower_bound
                    \/ 8 * s.cells[i].v >= upper_bound }

\* utils.py:42-48: the rows of df[(col < lower) | (col > upper)].
\* Q1 and Q3 are numerators over 4, the bounds numerators over 8; a
\* comparison with NaN (a missing cell, or bounds of an empty column) is
\* False.
OutlierRows(s) ==
    LET Q1  == quantile(s, 1)
        Q3  == quantile(s, 3)
        IQR == Q3.v - Q1.v
        lower_bound == 2 * Q1.v - 3 * IQR
        upper_bound == 2 * Q3.v + 3 * IQR
    IN  IF Q1.na \/ Q3.na THEN {}
        ELSE { i \in 1..Len(s.cells) :
                 /\ ~s.cells[i].na
                 /\ \/ 8 * s.cells[i].v < lower_bound
                    \/ 8 * s.cells[i].v > upper_bound }

\* utils.py:34-55
detect_outliers_iqr(d, column_name) ==
    IF d = None THEN "DataFrame is not loaded."
    ELSE IF ~InColumns(column_name, d)
    THEN "Column '" \o column_name \o "' not found in the DataFrame."
    ELSE IF is_numeric_dtype(Column(d, column_name))
    THEN LET outliers == OutlierRows(Column(d, column_name))
         IN  IF outliers # {}
             THEN " number of outliers detected in column '" \o column_name
                      \o "' (IQR method):\n" \o ToString(Cardinality(outliers))
             ELSE "No outliers detected in column '" \o column_name
                      \o "' (IQR method)."
    ELSE "Outlier detection (IQR method) is only applicable to numerical columns. '"
             \o column_name \o "' is not numerical."


\* utils.py:5-15.  pd.read_excel on the uploaded file: a sheet, or one of the
\* two exceptions load_data distinguishes.
read_excel(file) ==
    CASE file.content.kind = "xlsx"    -> [raises |-> None, value |-> file.content.sheet]
      [] file.content.kind = "missing" -> [raises |-> Str("FileNotFoundError"), value |-> None]
      [] OTHER -> [raises |-> Str("Exception"), value |-> None]

\* df.drop(columns=[name])
drop(d, name) ==
    DataFrame(d.rows, SelectSeq(d.cols, LAMBDA c : c.name # name))

\* utils.py:5-15: the pair (df, error message)
load_data(file_path) ==
    LET r == read_excel(file_path)
    IN  IF r.raises = None
        THEN << IF InColumns("Unnamed: 0", r.value) THEN drop(r.value, "Unnamed: 0")
                ELSE r.value,
                None >>
        ELSE IF r.raises.value = "FileNotFoundError"
        THEN << None, Str("Error: The file '" \o file_path.name \o "' was not found.") >>
        ELSE << None, Str("Error loading Excel file: " \o file_path.content.e) >>

\* ------------------------------------------------------------ Python str
Lower == "abcdefghijklmnopqrstuvwxyz"
UpperCase == "ABCDEFGHIJKLMNOPQRSTUVWXYZ"

\* The upper-case letter of each lower-case letter
ToUpper ==
    LET at(c) == CHOOSE i \in 1..Len(Lower) : SubSeq(Lower, i, i) = c
    IN  [c \in { SubSeq(Lower, i, i) : i \in 1..Len(Lower) } |->
            SubSeq(UpperCase, at(c), at(c))]

\* str.upper() of one character
UpperChar(c) == IF c \in DOMAIN ToUpper THEN ToUpper[c] ELSE c

RECURSIVE upper(_)
\* str.upper()
upper(s) ==
    IF s = "" THEN ""
    ELSE UpperChar(SubSeq(s, 1, 1)) \o upper(SubSeq(s, 2, Len(s)))

\* str.startswith(prefix)
startswith(s, prefix) ==
    Len(s) >= Len(prefix) /\ SubSeq(s, 1, Len(prefix)) = prefix

\* app.py:201: the tuple of prefixes given to startswith
SqlKeywords ==
    {"SELECT", "PRAGMA", "CREATE", "INSERT", "UPDATE", "DELETE", "DROP", "ALTER"}

\* app.py:194 and app.py:196
OutlierColumnMissing == "Please specify a column to detect outliers in."
CategoricalStats ==
    "Cannot process numerical statistics for categorical columns. Please specify a numerical column."

\* Texts the external service returns.  The quoted query stands for any
\* wrapping of a query (quotes, a Markdown code fence).
Replies ==
    { OutlierColumnMissing,
      CategoricalStats,
      "Please specify a column to detect outliers in",
      "select * from df",
      " SELECT * FROM df",
      "\"SELECT * FROM df\"",
      "Selected rows are shown in the sidebar.",
      "PRAGMA table_info(df)",
      "CREATE TABLE t AS SELECT * FROM df",
      "Insert into df values (1)",
      "UPDATE df SET a = 0",
      "DELETE FROM df",
      "drop table df",
      "ALTER TABLE df RENAME TO t",
      "" }

\* str.upper() of each of these texts (upper, evaluated once per text)
Upper == [t \in Replies |-> upper(t)]

\* ------------------------------------------------- the embedded evaluator
\* utils.py:60.  sqldf(query, {"df": df}) writes the frames of env it finds
\* named in the query into a fresh in-memory database, runs the statement
\* there and returns its rows, None for a statement that has no result set,
\* or raises.  Execute is the engine on the statements that occur in Replies
\* (SQL is case-insensitive); anything else is a syntax error.
Execute(statement, db) ==
    CASE statement = "SELECT * FROM DF" ->
           [raises |-> None, result |-> db.df, db |-> db]
      [] statement = "PRAGMA TABLE_INFO(DF)" ->
           [raises |-> None,
            result |-> DataFrame(Len(db.df.cols),
                         << Series("name", "object", columns(db.df)) >>),
            db |-> db]
      [] statement = "DELETE FROM DF" ->
           [raises |-> None, result |-> None,
            db |-> [df |-> DataFrame(0,
                      [i \in 1..Len(db.df.cols) |->
                          Series(db.df.cols[i].name, db.df.cols[i].dtype, << >>)])]]
      [] statement = "CREATE TABLE T AS SELECT * FROM DF" ->
           [raises |-> None, result |-> None, db |-> db]
      [] statement \in {"DROP TABLE DF", "UPDATE DF SET A = 0",
                        "INSERT INTO DF VALUES (1)", "ALTER TABLE DF RENAME TO T"} ->
           [raises |-> Str("no such table: df"), result |-> None, db |-> db]
      [] OTHER ->
           [raises |-> Str("near \"" \o statement \o "\": syntax error"),
            result |-> None, db |-> db]

\* Mutant: the statement runs on the caller's table instead of a copy
sqldf_live(query, env) ==
    LET r == Execute(Upper[query], [df |-> env.df])
    IN  [raises |-> r.raises, result |-> r.result, env |-> r.db]

\* utils.py:60: the call returns [raises, result] and leaves the caller's env
\* as `env`: the statement ran on the database copy, which is then dropped.
sqldf(query, env) ==
    LET db == [df |-> env.df]
        r  == Execute(Upper[query], db)
    IN  [raises |-> r.raises, result |-> r.result, env |-> env]

\* Mutant: the exception is swallowed, no message is returned
run_pandasql_query_swallow(query, d) ==
    LET r == sqldf(query, [df |-> d])
    IN  [ret |-> << r.result, None >>, df |-> r.env.df]

\* utils.py:57-63: the pair (result, error message), and the caller's table
\* after the call.
run_pandasql_query(query, d) ==
    LET r == sqldf(query, [df |-> d])
    IN  IF r.raises = None
        THEN [ret |-> << r.result, None >>, df |-> r.env.df]
        ELSE [ret |-> << None, Str("Error running SQL query: " \o r.raises.value) >>,
              df |-> r.env.df]

\* ------------------------------------------------------------- src/app.py

\* One st.* call: the function, the line of app.py that makes it, its argument.
Show(call, line, arg) == [call |-> call, line |-> line, arg |-> arg]

\* df.head(): the first five rows
head(d) ==
    LET n == IF d.rows < 5 THEN d.rows ELSE 5
    IN  DataFrame(n, [i \in 1..Len(d.cols) |->
                        Series(d.cols[i].name, d.cols[i].dtype,
                               SubSeq(d.cols[i].cells, 1, n))])

RECURSIVE join(_, _)
\* sep.join(names)
join(sep, names) ==
    IF Len(names) = 0 THEN ""
    ELSE IF Len(names) = 1 THEN names[1]
    ELSE names[1] \o sep \o join(sep, Tail(names))

\* Mutant: the chat history is kept across runs (one entry per earlier run)
chat_history_persisted == [i \in 1..Cardinality(history) |-> "earlier turn"]

\* app.py:181: the chat history handed to the agent
chat_history == << >>

\* app.py:86-181: what agent_executor.invoke is called with (the question and
\* the chat history; the prompt carries the column names, the model the key)
Invocation(d, question, key) ==
    [type |-> "invoke", input |-> question, chat_history |-> chat_history,
     columns_str |-> join(", ", columns(d)), api_key |-> key]

\* app.py:186-191
final_response_content(r) ==
    IF r.type = "dict" THEN r.output
    ELSE IF r.type = "AIMessage" THEN r.content
    ELSE r.value

\* Mutant: the keyword test without upper()
Dispatch_CaseSensitive(content) ==
    IF content = OutlierColumnMissing THEN "warning"
    ELSE IF content = CategoricalStats THEN "warning"
    ELSE IF \E k \in SqlKeywords : startswith(content, k) THEN "sql"
    ELSE "text"

\* app.py:194-216: the branch taken for the returned text
Dispatch(content) ==
    IF content = OutlierColumnMissing THEN "warning"
    ELSE IF content = CategoricalStats THEN "warning"
    ELSE LET u == Upper[content]
         IN  IF \E k \in SqlKeywords : startswith(u, k) THEN "sql" ELSE "text"

\* app.py:206-212: what is shown for the pair run_pandasql_query returned
ShowQueryResult(ret) ==
    IF Truthy(ret[2]) THEN << Show("st.error", 209, Str("[x] " \o ret[2].value)) >>
    ELSE IF ret[1] # None
    THEN << Show("st.success", 211, Str("Done!")), Show("st.dataframe", 212, ret[1]) >>
    ELSE << >>

\* ------------------------------------------------------------------ inputs
SheetA ==
    DataFrame(6, << Series("a", "int64",
                           << Num(0), Num(4), Num(0), Num(20), Num(4), Num(0) >>),
                    Series("b", "object", << "x", "y", "x", "y", "x", "x" >>) >>)

SheetB ==
    DataFrame(3, << Series("Unnamed: 0", "int64", << Num(0), Num(1), Num(2) >>),
                    Series("a", "float64", << Num(4), NaN, Num(16) >>) >>)

UploadedFile(name, content) ==
    [type |-> "UploadedFile", name |-> name, content |-> content]

\* What the file uploader hands to main(): nothing, or a file that reads as a
\* sheet or makes pd.read_excel raise.
UploadedFiles ==
    { None,
      UploadedFile("a.xlsx", [kind |-> "xlsx", sheet |-> SheetA]),
      UploadedFile("b.xlsx", [kind |-> "xlsx", sheet |-> SheetB]),
      UploadedFile("bad.xlsx", [kind |-> "corrupt", e |-> "File is not a zip file"]),
      UploadedFile("gone.xlsx", [kind |-> "missing"]) }

Questions == {"", "Are there outliers in a?"}

\* os.environ["OPENAI_API_KEY"] of the server process: unset, empty or set
Keys == {None, Str(""), Str("sk-test")}

\* What agent_executor.invoke returns: the dict with "output"; the two other
\* shapes app.py:188-191 accepts, each with one text.
Responses ==
    { [type |-> "dict", output |-> t] : t \in Replies }
      \cup { [type |-> "AIMessage", content |-> "select * from df"],
             Str("DELETE FROM df") }

\* Column names the agent passes to the helper tools
ToolArgs == {"a", "b", "zz"}

\* Numbers in the cells of the enumerated tables
Vals == {0, 4, 20}

\* Tables the helpers are applied to directly: a numeric column "a" of up to
\* MaxRows cells (float64 when a cell is missing), alone or followed by an
\* object column "b".
HelperTables ==
    LET Cells == { Num(v) : v \in Vals } \cup { NaN }
        NumCol(c) ==
            Series("a",
                   IF \E i \in 1..Len(c) : c[i].na THEN "float64" ELSE "int64", c)
        ObjCol(n) == Series("b", "object", [i \in 1..n |-> "x"])
    IN  UNION { { DataFrame(n, << NumCol(c) >>) : c \in [1..n -> Cells] }
                  \cup { DataFrame(n, << NumCol(c), ObjCol(n) >>) : c \in [1..n -> Cells] }
                : n \in 0..MaxRows }

\* ----------------------------------------------------------------- actions

\* A completed run, as kept in history: what came in and what it led to.
RunRecord(file, question, pressed, key, resp, out, inv, ev) ==
    [inputs  |-> [uploaded_file |-> file, user_question |-> question,
                  button |-> pressed, environ |-> key, response |-> resp],
     outcome |-> [shown |-> out, sent |-> inv, evaluated |-> ev]]

\* app.py:66-79: the sidebar overview and the question form
Overview(d) ==
    << Show("st.sidebar.success", 66, Str("Successfully connected to database.")),
       Show("st.sidebar.dataframe", 68, head(d)),
       Show("st.sidebar.write", 70, [type |-> "list", items |-> columns(d)]),
       Show("st.text_area", 75, Str("Enter your question here")),
       Show("st.button", 79, Str("Get Answer")) >>

\* Mutant: only the absence of the key is tested, not its emptiness
ApiKeyMissing_unset(key) == key = None

\* app.py:82: the key is missing from os.environ, or empty
ApiKeyMissing(key) == ~Truthy(key)

\* app.py:17 and 49-181, 218-221: one run of the script, main() up to the call
\* of the agent or to its end when a guard fails.  The widgets of the form
\* exist only when the form is drawn.
Rerun(file, question, pressed) ==
    /\ pc \in {"idle", "done"}
    /\ nreq < MaxRequests
    /\ LET key    == environ
           loaded == IF file # None THEN load_data(file) ELSE << None, None >>
           d      == loaded[1]
           err    == loaded[2]
           form   == ~Truthy(err) /\ d # None
           call   == form /\ pressed /\ question # "" /\ ~ApiKeyMissing(key)
           out    == IF Truthy(err)
                     THEN << Show("st.error", 64, Str("[x] " \o err.value)) >>
                     ELSE IF d # None
                     THEN Overview(d) \o
                          ( IF pressed
                            THEN IF question # ""
                                 THEN IF ApiKeyMissing(key)
                                      THEN << Show("st.warning", 83,
                                                Str("Please set your OpenAI API key in the .env file or as an environment variable.")) >>
                                      ELSE << >>
                                 ELSE << Show("st.warning", 219, Str("Please enter a question.")) >>
                            ELSE << >> )
                     ELSE << Show("st.info", 221,
                               Str("Please upload an Excel file to get started.")) >>
           inv    == IF call THEN Invocation(d, question, key) ELSE None
       IN  /\ form \/ (question = "" /\ ~pressed)
           /\ uploaded_file' = file
           /\ user_question' = question
           /\ button' = pressed
           /\ environ' = environ
           /\ df' = d
           /\ error_message' = err
           /\ shown' = out
           /\ sent' = inv
           /\ service_calls' = IF call THEN 1 ELSE 0
           /\ pc' = IF call THEN "agent" ELSE "done"
           /\ history' = IF call THEN history
                         ELSE history \cup
                              { RunRecord(file, question, pressed, key, None,
                                          out, inv, None) }
    /\ response' = None
    /\ evaluated' = None
    /\ evaluator_calls' = 0
    /\ tool_calls' = 0
    /\ last_tool' = None
    /\ nreq' = nreq + 1

\* A helper call and what it returned
ToolCall(name, arg, ret) == [type |-> "call", tool |-> name, arg |-> arg, ret |-> ret]

\* The bookkeeping common to the three tools
Called(name, arg, ret) ==
    /\ pc \in {"agent", "helpers"}
    /\ tool_calls < MaxToolCalls
    /\ tool_calls' = tool_calls + 1
    /\ last_tool' = ToolCall(name, arg, ret)
    /\ UNCHANGED << pc, uploaded_file, user_question, button, environ, error_message,
                    shown, sent, service_calls, response, evaluated, evaluator_calls,
                    nreq, history >>

\* app.py:91 (lambda s: get_dataframe_shape(df)), utils.py:17-22
Tool_get_dataframe_shape(s) ==
    /\ Called("get_dataframe_shape", s, get_dataframe_shape(df))
    /\ df' = df

\* app.py:94, utils.py:24-32
Tool_get_column_statistics(column_name) ==
    /\ Called("get_column_statistics", column_name, get_column_statistics(df, column_name))
    /\ df' = df

\* The table without the rows in `gone`
DropRows(d, gone) ==
    LET keep(cells) ==
            LET RECURSIVE from(_)
                from(i) == IF i > Len(cells) THEN << >>
                           ELSE (IF i \in gone THEN << >> ELSE << cells[i] >>) \o from(i + 1)
            IN  from(1)
    IN  DataFrame(d.rows - Cardinality(gone),
                  [i \in 1..Len(d.cols) |->
                      Series(d.cols[i].name, d.cols[i].dtype, keep(d.cols[i].cells))])

\* Mutant: the helper drops the rows it flags from the caller's table
\* (df.drop(outliers.index, inplace=True)).
Tool_detect_outliers_iqr_inplace(column_name) ==
    /\ Called("detect_outliers_iqr", column_name, detect_outliers_iqr(df, column_name))
    /\ df' = IF df # None /\ InColumns(column_name, df)
                 /\ is_numeric_dtype(Column(df, column_name))
              THEN DropRows(df, OutlierRows(Column(df, column_name)))
              ELSE df

\* app.py:97, utils.py:34-55
Tool_detect_outliers_iqr(column_name) ==
    /\ Called("detect_outliers_iqr", column_name, detect_outliers_iqr(df, column_name))
    /\ df' = df

\* app.py:181-216: agent_executor.invoke returns (the agent's scratchpad of
\* tool calls goes with it) and main() runs to its end.
AgentReturns(r) ==
    /\ pc = "agent"
    /\ LET content == final_response_content(r)
           branch  == Dispatch(content)
           q       == run_pandasql_query(content, df)
           ev      == IF branch = "sql"
                      THEN [type |-> "query", query |-> content, ret |-> q.ret]
                      ELSE None
           out     == shown \o << Show("st.markdown", 183, Str("### Analysis Result")) >> \o
                      ( CASE branch = "warning" ->
                               << Show("st.warning",
                                       IF content = OutlierColumnMissing THEN 195 ELSE 197,
                                       Str("[!] " \o content)) >>
                          [] branch = "sql" ->
                               << Show("st.info", 203, Str("Generated SQL Query:")),
                                  Show("st.code", 204, Str(content)) >>
                                 \o ShowQueryResult(q.ret)
                          [] OTHER -> << Show("st.write", 216, Str(content)) >> )
           d       == IF branch = "sql" THEN q.df ELSE df
       IN  /\ response' = r
           /\ shown' = out
           /\ evaluated' = ev
           /\ evaluator_calls' = IF branch = "sql" THEN evaluator_calls + 1
                                 ELSE evaluator_calls
           /\ df' = d
           /\ history' = history \cup
                           { RunRecord(uploaded_file, user_question, button, environ,
                                       r, out, sent, ev) }
    /\ pc' = "done"
    /\ tool_calls' = 0
    /\ last_tool' = None
    /\ UNCHANGED << uploaded_file, user_question, button, environ, error_message,
                    sent, service_calls, nreq >>

\* ---------------------------------------------------------- specifications
Init ==
    /\ pc = "idle"
    /\ uploaded_file = None
    /\ user_question = ""
    /\ button = FALSE
    /\ environ \in Keys
    /\ df = None
    /\ error_message = None
    /\ shown = << >>
    /\ sent = None
    /\ service_calls = 0
    /\ response = None
    /\ evaluated = None
    /\ evaluator_calls = 0
    /\ tool_calls = 0
    /\ last_tool = None
    /\ nreq = 0
    /\ history = {}

Next ==
    \/ \E file \in UploadedFiles, question \in Questions, pressed \in BOOLEAN :
          Rerun(file, question, pressed)
    \/ \E s \in ToolArgs : Tool_get_dataframe_shape(s)
    \/ \E column_name \in ToolArgs : Tool_get_column_statistics(column_name)
    \/ \E column_name \in ToolArgs : Tool_detect_outliers_iqr(column_name)
    \/ \E r \in Responses : AgentReturns(r)

Spec == Init /\ [][Next]_vars

\* The helpers applied directly (utils.py:17-55) to every enumerated table and
\* to None, with every column name.
HelpersInit ==
    /\ pc = "helpers"
    /\ df \in HelperTables \cup {None}
    /\ uploaded_file = None
    /\ user_question = ""
    /\ button = FALSE
    /\ environ = None
    /\ error_message = None
    /\ shown = << >>
    /\ sent = None
    /\ service_calls = 0
    /\ response = None
    /\ evaluated = None
    /\ evaluator_calls = 0
    /\ tool_calls = 0
    /\ last_tool = None
    /\ nreq = 0
    /\ history = {}

HelpersNext ==
    \/ \E s \in ToolArgs : Tool_get_dataframe_shape(s)
    \/ \E column_name \in ToolArgs : Tool_get_column_statistics(column_name)
    \/ \E column_name \in ToolArgs : Tool_detect_outliers_iqr(column_name)

HelpersSpec == HelpersInit /\ [][HelpersNext]_vars

\* ------------------------------------------------------------------ claims

\* The run has ended after the service replied.
Replied == pc = "done" /\ response # None

\* Some st.* call of this run made by `line` of app.py
ShownAt(line) == \E i \in 1..Len(shown) : shown[i].line = line

\* The number of st.* calls of this run made by one of `lines`
CountAt(lines) == Cardinality({ i \in 1..Len(shown) : shown[i].line \in lines })

\* The text is one of the two fixed helper responses.
IsFixedResponse(t) ==
    t \in { "Please specify a column to detect outliers in.",
            "Cannot process numerical statistics for categorical columns. Please specify a numerical column." }

\* The upper-cased text starts with one of the eight statement keywords.
StartsWithKeyword(t) ==
    \E k \in {"SELECT", "PRAGMA", "CREATE", "INSERT", "UPDATE", "DELETE", "DROP", "ALTER"} :
        startswith(Upper[t], k)

\* C1: for every text the service returns, exactly one of three outcomes is
\* taken: the text is shown as a warning iff it equals one of the two fixed
\* strings; it is sent to the query evaluator iff it is not one of them and
\* its upper-cased form starts with one of the eight keywords; it is written
\* as it is in every other case.
C1_DispatchOutcomes ==
    Replied =>
        LET t       == final_response_content(response)
            warned  == \E i \in 1..Len(shown) :
                          /\ shown[i].call = "st.warning"
                          /\ shown[i].line \in {195, 197}
                          /\ shown[i].arg = Str("[!] " \o t)
            queried == evaluator_calls = 1 /\ evaluated # None /\ evaluated.query = t
            written == \E i \in 1..Len(shown) :
                          /\ shown[i].call = "st.write"
                          /\ shown[i].arg = Str(t)
        IN  /\ warned  <=> IsFixedResponse(t)
            /\ queried <=> (~IsFixedResponse(t) /\ StartsWithKeyword(t))
            /\ written <=> (~IsFixedResponse(t) /\ ~StartsWithKeyword(t))
            /\ Cardinality({ b \in {"w", "q", "t"} :
                               \/ b = "w" /\ (ShownAt(195) \/ ShownAt(197))
                               \/ b = "q" /\ evaluator_calls > 0
                               \/ b = "t" /\ ShownAt(216) }) = 1

\* C1 witness: a lower-case query was sent to the evaluator.
C1_Witness ==
    /\ Replied
    /\ final_response_content(response) = "select * from df"
    /\ evaluated # None

RECURSIVE lstrip(_)
\* The text without the white space and quotes that precede its first word
lstrip(t) ==
    IF t # "" /\ SubSeq(t, 1, 1) \in {" ", "\n", "\t", "\""}
    THEN lstrip(SubSeq(t, 2, Len(t)))
    ELSE t

\* The text is a query against the table: after any leading white space or
\* wrapping, its first word is a statement keyword in any letter case.
IsQueryString(t) ==
    LET u == upper(lstrip(t))
    IN  \E k \in {"SELECT", "PRAGMA", "CREATE", "INSERT", "UPDATE", "DELETE", "DROP", "ALTER"} :
            startswith(u, k \o " ")

\* C2: the returned text is sent to the query evaluator iff it is a query
\* string, whatever the case of its keyword and whatever white space or
\* wrapping precedes the query.
C2_QueryIffEvaluated ==
    Replied =>
        (IsQueryString(final_response_content(response)) <=> evaluator_calls = 1)

\* What load_data leaves of a sheet: everything but a column 'Unnamed: 0'.
SheetTable(sheet) ==
    [type |-> "DataFrame", rows |-> sheet.rows,
     cols |-> SelectSeq(sheet.cols, LAMBDA c : c.name # "Unnamed: 0")]

\* C9: a run whose reply went to the evaluator ends with exactly one of: the
\* evaluator's error message shown as an error, or the 'Done' notice with
\* the result table.
C9_OneTerminalDisplay ==
    (Replied /\ evaluator_calls = 1) =>
        LET failed    == ShownAt(209)
            succeeded == ShownAt(211) /\ ShownAt(212)
        IN  (failed \/ succeeded) /\ ~(failed /\ succeeded)

\* C10: once load_data has succeeded the handler's table stays what
\* load_data returned (the sheet without a column 'Unnamed: 0'): through the
\* helper calls of the agent and through every dispatch outcome, a data-
\* changing statement run by the evaluator included.
C10_TableNeverModified ==
    (uploaded_file # None /\ uploaded_file.content.kind = "xlsx") =>
        df = SheetTable(uploaded_file.content.sheet)

\* C10 witness: a DELETE ran in the evaluator without error, after load_data
\* dropped 'Unnamed: 0' from the sheet.
C10_Witness ==
    /\ Replied
    /\ evaluated # None
    /\ Upper[evaluated.query] = "DELETE FROM DF"
    /\ evaluated.ret = << None, None >>
    /\ InColumns("Unnamed: 0", uploaded_file.content.sheet)
    /\ df.rows > 0

\* C4: load_data and run_pandasql_query return (value, None) when the reader
\* / evaluator succeeds and (None, a non-empty message) when it raises; a
\* load error is shown as the run's only message, without the question
\* form; a query error is shown as an error, without a result table.
C4_FailuresCaughtAndShown ==
    /\ uploaded_file # None =>
          IF read_excel(uploaded_file).raises # None
          THEN df = None /\ Truthy(error_message)
          ELSE df # None /\ error_message = None
    /\ Truthy(error_message) =>
          /\ shown = << [call |-> "st.error", line |-> 64,
                         arg |-> Str("[x] " \o error_message.value)] >>
          /\ ~ShownAt(75) /\ ~ShownAt(79)
    /\ evaluated # None =>
          LET ret == evaluated.ret
          IN  /\ IF sqldf(evaluated.query, [df |-> df]).raises # None
                 THEN ret[1] = None /\ Truthy(ret[2])
                 ELSE ret[2] = None
              /\ ret[2] # None =>
                    /\ \E i \in 1..Len(shown) :
                          shown[i] = [call |-> "st.error", line |-> 209,
                                      arg |-> Str("[x] " \o ret[2].value)]
                    /\ ~ShownAt(212)

\* C4 witness: the evaluator raised in this run and its message is shown; an
\* earlier run showed a load error.
C4_Witness ==
    /\ pc = "done"
    /\ evaluated # None
    /\ Truthy(evaluated.ret[2])
    /\ ShownAt(209)
    /\ \E h \in history : Len(h.outcome.shown) = 1 /\ h.outcome.shown[1].line = 64

\* The chat history was empty in every call of the service so far.
ChatHistoryAlwaysEmpty ==
    /\ sent # None => sent.chat_history = << >>
    /\ \A h \in history : h.outcome.sent # None => h.outcome.sent.chat_history = << >>

\* C5 as stated: the outcome of a run is a function of its uploaded file,
\* question text, API-key setting and the service's reply, and the chat
\* history handed to the service is always empty.
C5_OutcomeOfFileQuestionKeyReply ==
    /\ ChatHistoryAlwaysEmpty
    /\ \A a, b \in history :
          ( /\ a.inputs.uploaded_file = b.inputs.uploaded_file
            /\ a.inputs.user_question = b.inputs.user_question
            /\ a.inputs.environ = b.inputs.environ
            /\ a.inputs.response = b.inputs.response )
          => a.outcome = b.outcome

\* C5 (amended): the outcome of a run (what is sent to the service, what is
\* evaluated, what is shown) is a function of its uploaded
\* file, question text, whether 'Get Answer' was pressed, API-key setting
\* and the service's reply, whatever runs preceded it; the chat history
\* handed to the service is always empty.
C5_NoStateAcrossRequests ==
    /\ ChatHistoryAlwaysEmpty
    /\ \A a, b \in history : a.inputs = b.inputs => a.outcome = b.outcome

\* C5 witness: the service is called in a run that follows a completed run
\* with the same file, question and key which called it too.
C5_Witness ==
    /\ pc = "agent"
    /\ sent # None
    /\ \E h \in history :
          /\ h.outcome.sent # None
          /\ h.inputs.uploaded_file = uploaded_file
          /\ h.inputs.user_question = user_question
          /\ h.inputs.environ = environ

\* The guards of the run, from what came in
FileUploaded == uploaded_file # None
TableLoaded == FileUploaded /\ df # None /\ error_message = None
QuestionGiven == user_question # ""
KeySet == environ # None /\ environ.value # ""
AllGuards == FileUploaded /\ TableLoaded /\ button /\ QuestionGiven /\ KeySet

\* The service and the evaluator are called at most once per run, the
\* service only when every guard holds, the evaluator only after the reply.
CallsGuarded ==
    /\ service_calls <= 1
    /\ evaluator_calls <= 1
    /\ service_calls = 1 => AllGuards
    /\ evaluator_calls = 1 => (service_calls = 1 /\ response # None)
    /\ (nreq > 0 /\ ~AllGuards) => (service_calls = 0 /\ evaluator_calls = 0)

\* The four guard messages: load error, upload prompt, question prompt,
\* API-key warning
GuardMessages == {64, 221, 219, 83}

\* C8 as stated: the calls are guarded, and when a guard fails exactly one
\* of the four guard messages is shown.
C8_OneMessagePerFailedGuard ==
    /\ CallsGuarded
    /\ (nreq > 0 /\ ~AllGuards) => CountAt(GuardMessages) = 1

\* C8 (amended): the calls are guarded; when the first guard that fails is
\* the upload, the load, the question or the key, exactly one message, the
\* one of that guard, is shown; when the table is loaded and the button was
\* not pressed, none of the four messages is shown.
C8_GuardedInvocation ==
    /\ CallsGuarded
    /\ (nreq > 0 /\ ~AllGuards) =>
          CASE ~FileUploaded -> CountAt(GuardMessages) = 1 /\ ShownAt(221)
            [] ~TableLoaded  -> CountAt(GuardMessages) = 1 /\ ShownAt(64)
            [] ~button       -> CountAt(GuardMessages) = 0
            [] ~QuestionGiven -> CountAt(GuardMessages) = 1 /\ ShownAt(219)
            [] OTHER         -> CountAt(GuardMessages) = 1 /\ ShownAt(83)

\* C8 witness: a run with the table loaded and the button not pressed shows
\* no guard message, after a run that went through service and evaluator.
C8_Witness ==
    /\ pc = "done"
    /\ TableLoaded
    /\ ~button
    /\ CountAt(GuardMessages) = 0
    /\ \E h \in history : h.outcome.evaluated # None

\* What a call of the named helper returns on table d
HelperResult(tool, d, arg) ==
    CASE tool = "get_dataframe_shape"   -> get_dataframe_shape(d)
      [] tool = "get_column_statistics" -> get_column_statistics(d, arg)
      [] OTHER                          -> detect_outliers_iqr(d, arg)

\* C3: a call of get_dataframe_shape, get_column_statistics or
\* detect_outliers_iqr leaves the table as it was (and every other variable
\* of the handler), and the same call on the table as it is after the call
\* returns the same string.
C3_HelpersPure ==
    [][ tool_calls' # tool_calls =>
          /\ df' = df
          /\ last_tool'.ret = HelperResult(last_tool'.tool, df', last_tool'.arg)
          /\ UNCHANGED << pc, uploaded_file, user_question, button, environ,
                          error_message, shown, sent, service_calls, response,
                          evaluated, evaluator_calls, nreq, history >> ]_vars

\* C3 witness: detect_outliers_iqr has flagged rows of a table.
C3_Witness ==
    /\ last_tool # None
    /\ last_tool.tool = "detect_outliers_iqr"
    /\ df # None
    /\ InColumns(last_tool.arg, df)
    /\ is_numeric_dtype(Column(df, last_tool.arg))
    /\ OutlierRows(Column(df, last_tool.arg)) # {}
    /\ last_tool.ret = detect_outliers_iqr(df, last_tool.arg)

\* The numbers of a numeric column, missing cells left out
Numbers(s) == { i \in 1..Len(s.cells) : ~s.cells[i].na }

\* The j-th smallest (from 0) of the numbers of the column: the one with at
\* most j numbers below it and more than j numbers not above it
OrderStatistic(s, j) ==
    CHOOSE x \in { s.cells[i].v : i \in Numbers(s) } :
        /\ Cardinality({ i \in Numbers(s) : s.cells[i].v < x }) <= j
        /\ Cardinality({ i \in Numbers(s) : s.cells[i].v <= x }) > j

\* Four times the k/4 quantile of the column, by linear interpolation
\* between the order statistics around position (n - 1) * k / 4
Quartile4(s, k) ==
    LET h == (Cardinality(Numbers(s)) - 1) * k
    IN  IF h % 4 = 0 THEN 4 * OrderStatistic(s, h \div 4)
        ELSE (4 - (h % 4)) * OrderStatistic(s, h \div 4)
                 + (h % 4) * OrderStatistic(s, h \div 4 + 1)

\* Eight times Q1 - 1.5 * IQR and Q3 + 1.5 * IQR
LowerBound8(s) == 2 * Quartile4(s, 1) - 3 * (Quartile4(s, 3) - Quartile4(s, 1))
UpperBound8(s) == 2 * Quartile4(s, 3) + 3 * (Quartile4(s, 3) - Quartile4(s, 1))

\* The rows strictly outside the two bounds
OutlierCount(s) ==
    IF Numbers(s) = {} THEN 0
    ELSE Cardinality({ i \in Numbers(s) :
                         \/ 8 * s.cells[i].v < LowerBound8(s)
                         \/ 8 * s.cells[i].v > UpperBound8(s) })

\* The latest call is detect_outliers_iqr on a numeric column of the table.
OutliersComputed ==
    /\ last_tool # None
    /\ last_tool.tool = "detect_outliers_iqr"
    /\ df # None
    /\ InColumns(last_tool.arg, df)
    /\ is_numeric_dtype(Column(df, last_tool.arg))

\* C6: on a numeric column detect_outliers_iqr counts the rows strictly
\* below Q1 - 1.5 * IQR or strictly above Q3 + 1.5 * IQR (Q1, Q3 the 0.25
\* and 0.75 quantiles, IQR = Q3 - Q1) and returns the 'number of outliers'
\* message with that count iff it is at least 1, the 'No outliers' message
\* iff it is 0; a column of equal values has no outliers.
C6_OutlierCount ==
    OutliersComputed =>
        LET s == Column(df, last_tool.arg)
            n == OutlierCount(s)
            found == " number of outliers detected in column '" \o last_tool.arg
                         \o "' (IQR method):\n" \o ToString(n)
            none  == "No outliers detected in column '" \o last_tool.arg
                         \o "' (IQR method)."
        IN  /\ last_tool.ret = found <=> n >= 1
            /\ last_tool.ret = none <=> n = 0
            /\ Cardinality({ s.cells[i].v : i \in Numbers(s) }) <= 1
                  => last_tool.ret = none

\* C6 witness: rows were counted as outliers while another row lies exactly
\* on a bound and is not counted.
C6_Witness ==
    /\ OutliersComputed
    /\ LET s == Column(df, last_tool.arg)
       IN  /\ OutlierCount(s) >= 1
           /\ \E i \in Numbers(s) : 8 * s.cells[i].v \in {LowerBound8(s), UpperBound8(s)}
           /\ last_tool.ret = " number of outliers detected in column '" \o last_tool.arg
                                 \o "' (IQR method):\n" \o ToString(OutlierCount(s))

\* C7: get_column_statistics and detect_outliers_iqr return 'DataFrame is
\* not loaded.' when the table is None, otherwise the 'not found' message
\* when the name is no column of the table, and detect_outliers_iqr
\* otherwise the 'only applicable to numerical columns' message when the
\* column is not numeric; an outlier result is returned only for a loaded
\* table, an existing column and a numeric one.  get_dataframe_shape returns
\* 'DataFrame is not loaded.' iff the table is None, otherwise the message
\* with the row and column counts.
C7_InvalidInputPrecedence ==
    last_tool # None =>
        LET ret  == last_tool.ret
            name == last_tool.arg
            missing  == "Column '" \o name \o "' not found in the DataFrame."
            nonnum   == "Outlier detection (IQR method) is only applicable to numerical columns. '"
                            \o name \o "' is not numerical."
            computed == \/ startswith(ret, " number of outliers detected in column '")
                        \/ startswith(ret, "No outliers detected in column '")
        IN  IF last_tool.tool = "get_dataframe_shape"
            THEN /\ ret = "DataFrame is not loaded." <=> df = None
                 /\ df # None =>
                       ret = "The DataFrame has " \o ToString(df.rows) \o " rows and "
                                \o ToString(Len(df.cols)) \o " columns."
            ELSE /\ df = None => ret = "DataFrame is not loaded."
                 /\ (df # None /\ ~InColumns(name, df)) => ret = missing
                 /\ last_tool.tool = "detect_outliers_iqr" =>
                       /\ (df # None /\ InColumns(name, df)
                             /\ ~is_numeric_dtype(Column(df, name))) => ret = nonnum
                       /\ computed => (df # None /\ InColumns(name, df)
                                         /\ is_numeric_dtype(Column(df, name)))
                       /\ (df # None /\ InColumns(name, df)
                             /\ is_numeric_dtype(Column(df, name))) => computed

\* C7 witness: detect_outliers_iqr was called on the object column of a
\* loaded table.
C7_Witness ==
    /\ last_tool # None
    /\ last_tool.tool = "detect_outliers_iqr"
    /\ df # None
    /\ InColumns(last_tool.arg, df)
    /\ ~is_numeric_dtype(Column(df, last_tool.arg))
    /\ startswith(last_tool.ret, "Outlier detection (IQR method) is only applicable")

=============================================================================
